---- MODULE Spec2Model ----
(***************************************************************************)
(* Model of LLD/LRU Caching/lru_cache.py: a thread-safe LRU cache built on *)
(* an OrderedDict guarded by one threading.Lock.  Every method body is     *)
(* split into one step per statement so that threads can interleave        *)
(* wherever the interpreter may switch between them.                       *)
(*                                                                         *)
(* Model of LLD/Book My Show/book_my_show.py: a single-threaded booking    *)
(* system; each of its methods is one step.                                *)
(*                                                                         *)
(* Model of LLD/Design Parking Lot/parking_lot.py: a single-threaded       *)
(* parking lot; each of its methods is one step, and a method that raises  *)
(* leaves behind what it had written before the raise.                     *)
(***************************************************************************)
EXTENDS Integers, Sequences, FiniteSets, TLC

\* ---------------------------------------------------------------- bounds
NumThreads == 2
NumKeys == 3
NumValues == 1
MaxCapacity == 2

\* The value get and peek return for a missing key.
NotFound == -1

Threads == 1..NumThreads
Keys == 1..NumKeys
Values == {NotFound} \cup (1..NumValues)

VARIABLES
    capacity,   \* self.capacity
    cache,      \* self.cache: sequence of <<key, value>>, oldest first
    lock,       \* self.lock: TRUE while some thread holds it
    pc,         \* per thread: the statement it is about to execute
    op,         \* per thread: the method it is in
    key,        \* per thread: argument key
    val,        \* per thread: argument value (put)
    value,      \* per thread: local variable value of get
    ret,        \* per thread: the value being returned
    pre,        \* per thread: the cache as it was when the lock was taken
    seqCache,   \* the calls so far applied one at a time, in lock order
    seqRet,     \* per thread: the result of its call in that serial order
    watch,      \* which observer of the calls is switched on
    mon,        \* what the observer has seen of the calls, in lock order
    built,      \* "no": LRUCache(capArg) not run yet; "yes"; "ValueError"
    capArg,     \* the capacity argument of LRUCache(...)
    count,      \* per thread: the loop index i of a worker
    screens,    \* every Screen object created so far, by creation order
    cinemas,    \* BookingSystem.cinemas: sequence of <<cinema_id, screens>>
    tickets,    \* BookingSystem.tickets: ticket_id -> Ticket
    last,       \* the latest call on the BookingSystem and what it returned
    parking,    \* ParkingLot.parking: floor -> row -> col -> spot type
    vehicle_map,\* ParkingLot.vehicle_map: number or ticket id -> Vehicle
    spot_map,   \* ParkingLot.spot_map: spot id -> Vehicle
    free_spots, \* ParkingLot.free_spots: floor -> vehicle type -> count
    lotCall     \* the latest call on the ParkingLot and how it ended

\* The state of the booking system.
book == <<screens, cinemas, tickets, last>>

\* What no method of the cache writes.
\* The state of the parking lot.
lot == <<parking, vehicle_map, spot_map, free_spots, lotCall>>

rest == <<built, capArg, book, lot>>

vars == <<capacity, cache, lock, pc, op, key, val, value, ret, pre,
          seqCache, seqRet, watch, mon, count, rest>>

\* ------------------------------------------------------- returned values
RetNone == <<"None", 0>>
RetValue(x) == <<"value", x>>
RetInt(n) == <<"int", n>>
RetBool(b) == <<"bool", IF b THEN 1 ELSE 0>>

\* ------------------------------------------------ OrderedDict primitives
\* key in self.cache
Has(c, k) == \E i \in 1..Len(c) : c[i][1] = k

\* self.cache[key] as an expression, for a key that is present
Lookup(c, k) == c[CHOOSE i \in 1..Len(c) : c[i][1] = k][2]

\* self.cache.get(key, default)
GetDefault(c, k, d) == IF Has(c, k) THEN Lookup(c, k) ELSE d

\* self.cache.pop(key): the dictionary without key
Pop(c, k) == SelectSeq(c, LAMBDA e : e[1] # k)

PopItemLast(c) == SubSeq(c, 1, Len(c) - 1)

\* self.cache.popitem(last=False): the dictionary without its first item
PopItemFirst(c) == Tail(c)

\* self.cache[key] = value: a present key keeps its position, a new key is
\* appended at the end
SetItem(c, k, v) ==
    IF Has(c, k)
    THEN [i \in 1..Len(c) |-> IF c[i][1] = k THEN <<k, v>> ELSE c[i]]
    ELSE Append(c, <<k, v>>)

KeysOf(c) == {c[i][1] : i \in 1..Len(c)}

\* ------------------------------------------- the methods, run undisturbed
\* get: lines 26-32
GetState(c, k) == IF Has(c, k) THEN SetItem(Pop(c, k), k, Lookup(c, k)) ELSE c
GetResult(c, k) == IF Has(c, k) THEN Lookup(c, k) ELSE NotFound

\* put: lines 42-50
PutState(c, cap, k, v) ==
    SetItem(IF Has(c, k) THEN Pop(c, k)
            ELSE IF Len(c) >= cap THEN PopItemFirst(c) ELSE c, k, v)

\* peek: line 73
PeekResult(c, k) == GetDefault(c, k, NotFound)

IsFullStrict(c, cap) == Len(c) > cap

\* is_full: line 65
IsFull(c, cap) == Len(c) >= cap

SeqState(o, c, cap, k, v) ==
    CASE o = "get" -> GetState(c, k)
      [] o = "put" -> PutState(c, cap, k, v)
      [] o = "clear" -> <<>>
      [] OTHER -> c

SeqResult(o, c, cap, k) ==
    CASE o = "get" -> RetValue(GetResult(c, k))
      [] o = "peek" -> RetValue(PeekResult(c, k))
      [] o = "get_size" -> RetInt(Len(c))
      [] o = "is_full" -> RetBool(IsFull(c, cap))
      [] OTHER -> RetNone

\* ----------------------------------------------- observers of the calls
\* Two observers follow the calls in the order they take the lock; a run of
\* the model has at most one of them switched on (watch).
\*   watch = "scen": mon.scen tells how far the latest calls have followed
\*     the sequence
\*         put(k1, v1); put(k2, _); mid(k1); put(k3, v3)
\*     with k1, k2, k3 distinct and mid one of get and peek (stage 1 to 4:
\*     that many calls of it made; 0: none).
\*   watch = "run": mon.run lists the keys put since the last get, peek or
\*     clear, each once, in the order of their latest put, cut to the latest
\*     capacity + 1 of them; mon.fresh tells that the cache has been cleared
\*     and only puts have followed.
ScenInit ==
    [stage |-> 0, k1 |-> 0, v1 |-> 0, k2 |-> 0, k3 |-> 0, v3 |-> 0,
     mid |-> "none"]

MonInit ==
    [scen |-> ScenInit, run |-> <<>>, fresh |-> FALSE]

Without(s, k) == SelectSeq(s, LAMBDA x : x # k)

Latest(s, n) == IF Len(s) <= n THEN s ELSE SubSeq(s, Len(s) - n + 1, Len(s))

ScenNext(m, o, k, v) ==
    CASE o = "put" /\ m.stage = 1 /\ k # m.k1 ->
            [m EXCEPT !.stage = 2, !.k2 = k]
      [] o = "put" /\ m.stage = 3 /\ k \notin {m.k1, m.k2} ->
            [m EXCEPT !.stage = 4, !.k3 = k, !.v3 = v]
      [] o = "put" /\ ~(m.stage = 1 /\ k # m.k1)
                   /\ ~(m.stage = 3 /\ k \notin {m.k1, m.k2}) ->
            [ScenInit EXCEPT !.stage = 1, !.k1 = k, !.v1 = v]
      [] o \in {"get", "peek"} /\ m.stage = 2 /\ k = m.k1 ->
            [m EXCEPT !.stage = 3, !.mid = o]
      [] OTHER -> ScenInit

MonNext(w, m, cap, o, k, v) ==
    CASE w = "scen" -> [m EXCEPT !.scen = ScenNext(m.scen, o, k, v)]
      [] w = "run" ->
            [m EXCEPT
               !.run = IF o = "put"
                       THEN Latest(Append(Without(m.run, k), k), cap + 1)
                       ELSE IF o \in {"get", "peek", "clear"} THEN <<>>
                       ELSE m.run,
               !.fresh = IF o = "clear" THEN TRUE
                         ELSE IF o \in {"get", "peek"} THEN FALSE
                         ELSE m.fresh]
      [] OTHER -> m

\* ================================================= booking: the data
NumCinemas == 1
MaxScreens == 2
MaxSide == 2
NumShows == 1
NumTickets == 2

CinemaIds == 0..(NumCinemas - 1)
ShowIds == 1..NumShows
\* ticket ids 'tkt-1', 'tkt-2', ... by their number
TicketIds == 1..NumTickets
\* tickets_count: none, a run inside a row, more than a row holds
Counts == 0..(MaxSide + 1)

\* line 26: Screen.__post_init__, every seat free; shows holds the show ids
NewScreen(rows, columns) ==
    [rows |-> rows,
     columns |-> columns,
     shows |-> <<>>,
     seats |-> [r \in 0..(rows - 1) |-> [c \in 0..(columns - 1) |-> FALSE]]]

\* lines 85, 92: f"{row}-{col}"
SeatName(r, c) == <<ToString(r), "-", ToString(c)>>

\* lines 95, 104: int(...) of one part of a seat name
ParseInt(str) == CHOOSE n \in 0..(MaxSide + 1) : ToString(n) = str

\* lines 95, 104: map(int, seat.split('-'))
SeatPosition(name) ==
    LET parts == SelectSeq(name, LAMBDA x : x # "-")
    IN  <<ParseInt(parts[1]), ParseInt(parts[2])>>

\* lines 83-84, 96, 105: screen.seats[r][c] = b for each of the positions
MarkSeats(screen, positions, b) ==
    [screen EXCEPT !.seats =
        [r \in 0..(screen.rows - 1) |->
            [c \in 0..(screen.columns - 1) |->
                IF \E i \in 1..Len(positions) : positions[i] = <<r, c>>
                THEN b
                ELSE screen.seats[r][c]]]]

\* lines 80-82: the places where tickets_count free seats start in a row
RunStarts(screen, n) ==
    {p \in (0..(screen.rows - 1)) \X (0..(screen.columns - n)) :
        \A i \in 0..(n - 1) : ~screen.seats[p[1]][p[2] + i]}

\* lines 80-81: the loops visit row after row, column after column
FirstInOrder(S) ==
    CHOOSE p \in S :
        \A q \in S : p[1] < q[1] \/ (p[1] = q[1] /\ p[2] <= q[2])

\* lines 89-92: the free seats in the order the loops meet them
FreeInOrder(screen) ==
    LET all == [i \in 1..(screen.rows * screen.columns) |->
                   <<(i - 1) \div screen.columns, (i - 1) % screen.columns>>]
    IN  SelectSeq(all, LAMBDA p : ~screen.seats[p[1]][p[2]])

\* lines 78-98: _find_seats; found = FALSE stands for None
FindSeats(screen, n) ==
    IF RunStarts(screen, n) # {}
    THEN LET p == FirstInOrder(RunStarts(screen, n))
             at == [i \in 1..(IF n > 0 THEN n ELSE 0) |-> <<p[1], p[2] + i - 1>>]
         IN  [found |-> TRUE,
              seats |-> [i \in 1..Len(at) |-> SeatName(at[i][1], at[i][2])],
              screen |-> MarkSeats(screen, at, TRUE)]
    ELSE IF n > 0 /\ Len(FreeInOrder(screen)) >= n
    THEN LET names == [i \in 1..n |->
                          SeatName(FreeInOrder(screen)[i][1],
                                   FreeInOrder(screen)[i][2])]
         IN  [found |-> TRUE,
              seats |-> names,
              screen |-> MarkSeats(screen,
                                   [i \in 1..n |-> SeatPosition(names[i])],
                                   TRUE)]
    ELSE [found |-> FALSE, seats |-> <<>>, screen |-> screen]

RECURSIVE ScreenOrder(_)
\* lines 65-66, 112-113: the screens as the two outer loops visit them
ScreenOrder(cin) ==
    IF cin = <<>> THEN <<>> ELSE cin[1][2] \o ScreenOrder(Tail(cin))

\* lines 67-68, 114-115: the screens that have a show with this id, in order
ScreensOfShow(scr, cin, show_id) ==
    SelectSeq(ScreenOrder(cin),
              LAMBDA h : \E i \in 1..Len(scr[h].shows) : scr[h].shows[i] = show_id)

\* line 116: sum(not seat for row in screen.seats for seat in row)
FreeCount(screen) == Len(FreeInOrder(screen))

\* lines 111-120: get_free_seats_count
GetFreeSeatsCount(scr, cin, show_id) ==
    IF ScreensOfShow(scr, cin, show_id) = <<>>
    THEN 0
    ELSE FreeCount(scr[ScreensOfShow(scr, cin, show_id)[1]])

\* lines 65-70: the first show with this id whose screen yields seats; 0 if
\* none does.  A _find_seats that yields nothing leaves its screen as it was.
BookedScreen(scr, cin, show_id, n) ==
    LET hs == ScreensOfShow(scr, cin, show_id)
        ok == {i \in 1..Len(hs) : FindSeats(scr[hs[i]], n).seats # <<>>}
    IN  IF ok = {} THEN 0 ELSE hs[CHOOSE i \in ok : \A j \in ok : i <= j]

\* Before any call on the booking system.
NoCall ==
    [op |-> "none", ticket |-> 0, show |-> 0, n |-> 0, ok |-> FALSE,
     before |-> 0, follows |-> FALSE]

\* ============================================= parking lot: the data
NumFloors == 2
NumRows == 1
NumCols == 2
NumNames == 2

Floors == 0..(NumFloors - 1)
\* a cell of the grid: 0 is inactive, 2 and 4 are the wheel counts
SpotTypes == {0, 2, 4}
\* line 12: vehicle_type, 2 or 4 wheeler
VehicleTypes == {2, 4}
\* vehicle numbers and ticket ids are strings of one domain
Names == 1..NumNames
\* parking_strategy; the last one is not in self.strategies
Strategies == 0..2

\* line 62: the grids a ParkingLot is built on
Grids == [Floors -> [0..(NumRows - 1) -> [0..(NumCols - 1) -> SpotTypes]]]

\* line 93: f"{floor}-{row}-{col}"
SpotId(f, r, c) == <<ToString(f), "-", ToString(r), "-", ToString(c)>>

\* lines 121, 134: int(spot_id.split("-")[0])
SpotFloor(id) ==
    LET parts == SelectSeq(id, LAMBDA x : x # "-")
    IN  CHOOSE f \in Floors : ToString(f) = parts[1]

\* every spot id of the grid
SpotIds == {SpotId(f, r, c) : f \in Floors, r \in 0..(NumRows - 1), c \in 0..(NumCols - 1)}

\* lines 82-89: _initialize_free_spots
InitialFreeSpots(grid) ==
    [f \in Floors |->
        [t \in VehicleTypes |->
            Cardinality({p \in (0..(NumRows - 1)) \X (0..(NumCols - 1)) :
                            grid[f][p[1]][p[2]] = t})]]

SpotNeverTaken(sm, id) == FALSE

\* lines 32, 57: the spot id is in spot_map
SpotTaken(sm, id) == id \in DOMAIN sm

\* lines 29-33, 54-58: the first fitting cell of a floor, rows then columns
FirstOnFloor(grid, sm, f, t) ==
    LET fit == {p \in (0..(NumRows - 1)) \X (0..(NumCols - 1)) :
                   grid[f][p[1]][p[2]] = t /\ ~SpotTaken(sm, SpotId(f, p[1], p[2]))}
    IN  IF fit = {}
        THEN <<>>
        ELSE LET p == CHOOSE q \in fit :
                          \A o \in fit : q[1] < o[1] \/ (q[1] = o[1] /\ q[2] <= o[2])
             IN  SpotId(f, p[1], p[2])

\* lines 26-34: FirstAvailableSpotStrategy.find_spot; <<>> stands for None
FirstAvailableSpot(grid, sm, t) ==
    LET fs == {f \in Floors : FirstOnFloor(grid, sm, f, t) # <<>>}
    IN  IF fs = {}
        THEN <<>>
        ELSE FirstOnFloor(grid, sm, CHOOSE f \in fs : \A g \in fs : f <= g, t)

\* lines 40-48: the first floor whose count is the largest, if above -1
ChosenFloor(free, t) ==
    LET best == {f \in Floors :
                    /\ free[f][t] > 0 - 1
                    /\ \A g \in Floors : free[g][t] <= free[f][t]}
    IN  IF best = {} THEN 0 - 1 ELSE CHOOSE f \in best : \A g \in best : f <= g

\* lines 38-59: MaxFreeSpotsFloorStrategy.find_spot
MaxFreeSpot(grid, sm, free, t) ==
    IF ChosenFloor(free, t) = 0 - 1
    THEN <<>>
    ELSE FirstOnFloor(grid, sm, ChosenFloor(free, t), t)

\* lines 104-112: the spot park is given; <<>> when the strategy is unknown
\* or finds none
FindSpot(grid, sm, free, t, strategy) ==
    IF strategy = 0 THEN FirstAvailableSpot(grid, sm, t)
    ELSE IF strategy = 1 THEN MaxFreeSpot(grid, sm, free, t)
    ELSE <<>>

\* lines 145-152: search_vehicle; <<>> stands for ""
SearchVehicle(vm, query) ==
    IF query \in DOMAIN vm THEN vm[query].spot_id ELSE <<>>

\* lines 154-156: get_free_spots_count
GetFreeSpotsCount(free, f, t) == free[f][t]

\* del d[k]
Del(d, k) == [x \in DOMAIN d \ {k} |-> d[x]]

\* Before any call on the parking lot.
NoLotCall == [op |-> "none", spot |-> <<>>, ret |-> "none"]

\* ------------------------------------------------------------------ Init
\* Before LRUCache(capArg) runs there is no cache: the fields hold nothing.
StartWith(w, caps) ==
    /\ watch = w
    /\ built = "no"
    /\ capArg \in caps
    /\ capacity = 0
    /\ cache = <<>>
    /\ lock = FALSE
    /\ pc = [t \in Threads |-> "idle"]
    /\ op = [t \in Threads |-> "none"]
    /\ key = [t \in Threads |-> 0]
    /\ val = [t \in Threads |-> 0]
    /\ value = [t \in Threads |-> 0]
    /\ ret = [t \in Threads |-> RetNone]
    /\ pre = [t \in Threads |-> <<>>]
    /\ seqCache = <<>>
    /\ seqRet = [t \in Threads |-> RetNone]
    /\ mon = MonInit
    /\ count = [t \in Threads |-> 0]
    /\ screens = <<>>
    /\ cinemas = <<>>
    /\ tickets = <<>>
    /\ last = NoCall
    /\ parking = <<>>
    /\ vehicle_map = <<>>
    /\ spot_map = <<>>
    /\ free_spots = <<>>
    /\ lotCall = NoLotCall

Start(w) == StartWith(w, (0 - 1)..MaxCapacity)

CapacityValidFromZero(c) == ~(c < 0)

\* line 12: the capacities __init__ accepts
CapacityValid(c) == ~(c <= 0)

\* lines 12-17: LRUCache(capacity)
Construct ==
    /\ built = "no"
    /\ IF CapacityValid(capArg)
       THEN /\ built' = "yes"
            /\ capacity' = capArg
            /\ cache' = <<>>
            /\ lock' = FALSE
       ELSE /\ built' = "ValueError"
            /\ UNCHANGED <<capacity, cache, lock>>
    /\ UNCHANGED <<pc, op, key, val, value, ret, pre, seqCache, seqRet,
                   watch, mon, count, capArg, book, lot>>

\* --------------------------------------------------------------- calling
\* A thread calls one of the six methods and reaches its "with self.lock:".
\* Which method, and with which arguments, shows only once the body runs, so
\* the model draws them when the lock is taken.
Call(t) ==
    /\ built = "yes"
    /\ pc[t] = "idle"
    /\ pc' = [pc EXCEPT ![t] = "lock"]
    /\ UNCHANGED <<capacity, cache, lock, op, key, val, value, ret, pre,
                   seqCache, seqRet, watch, mon, count, rest>>

\* --------------------------------------------------------------- locking
LockAlwaysAvailable(o) == TRUE

LockOnlyForWriters(o) == o = "peek" \/ ~lock

\* Lock.acquire() returns only when the lock is not held
LockAvailable(o) == ~lock

\* The first statement inside "with self.lock:" of each method
FirstStatement(o) ==
    CASE o = "get" -> "get26"
      [] o = "put" -> "put42"
      [] o = "clear" -> "clear55"
      [] o = "get_size" -> "size60"
      [] o = "is_full" -> "full65"
      [] o = "peek" -> "peek73"

\* with self.lock: (entry) of method o called with key k and value v
Acquire(t, o, k, v) ==
    /\ pc[t] = "lock"
    /\ LockAvailable(o)
    /\ lock' = TRUE
    /\ pc' = [pc EXCEPT ![t] = FirstStatement(o)]
    /\ op' = [op EXCEPT ![t] = o]
    /\ key' = [key EXCEPT ![t] = k]
    /\ val' = [val EXCEPT ![t] = v]
    /\ pre' = [pre EXCEPT ![t] = cache]
    /\ seqCache' = SeqState(o, seqCache, capacity, k, v)
    /\ seqRet' = [seqRet EXCEPT ![t] = SeqResult(o, seqCache, capacity, k)]
    /\ mon' = MonNext(watch, mon, capacity, o, k, v)
    /\ UNCHANGED <<capacity, cache, value, ret, watch, rest>>

EnterGet(t) == (\E k \in Keys : Acquire(t, "get", k, 0)) /\ UNCHANGED count
EnterPut(t) == (\E k \in Keys : \E v \in Values : Acquire(t, "put", k, v)) /\ UNCHANGED count
EnterPeek(t) == (\E k \in Keys : Acquire(t, "peek", k, 0)) /\ UNCHANGED count
EnterClear(t) == (Acquire(t, "clear", 0, 0)) /\ UNCHANGED count
EnterGetSize(t) == (Acquire(t, "get_size", 0, 0)) /\ UNCHANGED count
EnterIsFull(t) == (Acquire(t, "is_full", 0, 0)) /\ UNCHANGED count

\* An exception leaves the with block: the lock is released and the thread
\* ends with the exception.
Raise(t) ==
    /\ lock' = FALSE
    /\ pc' = [pc EXCEPT ![t] = "raised"]

LockKeptOnMiss(t) == op[t] = "get" /\ ret[t] = RetValue(NotFound)

\* The lock after the with block is left by a return: released, whichever
\* return statement was executed
LockOnExit(t) == FALSE

\* with self.lock: (exit on return)
Exit(t) ==
    /\ pc[t] = "ret"
    /\ lock' = LockOnExit(t)
    /\ pc' = [pc EXCEPT ![t] = "idle"]
    /\ op' = [op EXCEPT ![t] = "none"]
    /\ key' = [key EXCEPT ![t] = 0]
    /\ val' = [val EXCEPT ![t] = 0]
    /\ value' = [value EXCEPT ![t] = 0]
    /\ ret' = [ret EXCEPT ![t] = RetNone]
    /\ pre' = [pre EXCEPT ![t] = <<>>]
    /\ seqRet' = [seqRet EXCEPT ![t] = RetNone]
    /\ UNCHANGED <<capacity, cache, seqCache, watch, mon, rest>>

Return(t) == Exit(t) /\ UNCHANGED count

\* ------------------------------------------------------------------- get
GetTestAlwaysHit(c, k) == TRUE

\* line 26: the condition under which get goes on to lines 30-32
GetTest(c, k) == Has(c, k)

GetMissNone == RetNone

\* line 27: what get returns for a key that is not in the cache
GetMiss == RetValue(NotFound)

\* lines 26-27: if key not in self.cache: return -1
Get26(t) ==
    /\ pc[t] = "get26"
    /\ IF GetTest(cache, key[t])
       THEN /\ pc' = [pc EXCEPT ![t] = "get30"]
            /\ ret' = ret
       ELSE /\ pc' = [pc EXCEPT ![t] = "ret"]
            /\ ret' = [ret EXCEPT ![t] = GetMiss]
    /\ UNCHANGED <<capacity, cache, lock, op, key, val, value, pre, seqCache, seqRet, watch, mon, count, rest>>

\* line 30: value = self.cache.pop(key)
Get30(t) ==
    /\ pc[t] = "get30"
    /\ IF Has(cache, key[t])
       THEN /\ value' = [value EXCEPT ![t] = Lookup(cache, key[t])]
            /\ cache' = Pop(cache, key[t])
            /\ pc' = [pc EXCEPT ![t] = "get31"]
            /\ lock' = lock
       ELSE /\ Raise(t)
            /\ UNCHANGED <<value, cache>>
    /\ UNCHANGED <<capacity, op, key, val, ret, pre, seqCache, seqRet, watch, mon, count, rest>>

GetReinsertDropped(c, k, v) == c

GetReinsertAtFront(c, k, v) == [i \in 1..(Len(c) + 1) |->
                                  IF i = 1 THEN <<k, v>> ELSE c[i - 1]]

\* line 31: self.cache[key] = value
GetReinsert(c, k, v) == SetItem(c, k, v)

\* lines 31-32: self.cache[key] = value; return value
Get31(t) ==
    /\ pc[t] = "get31"
    /\ cache' = GetReinsert(cache, key[t], value[t])
    /\ ret' = [ret EXCEPT ![t] = RetValue(value[t])]
    /\ pc' = [pc EXCEPT ![t] = "ret"]
    /\ UNCHANGED <<capacity, lock, op, key, val, value, pre, seqCache, seqRet, watch, mon, count, rest>>

\* ------------------------------------------------------------------- put
PutBranchNoPop(c, cap, k) ==
    IF ~Has(c, k) /\ Len(c) >= cap THEN "put47" ELSE "put50"

PutBranchEvictAlways(c, cap, k) ==
    IF Has(c, k) THEN "put44" ELSE "put47"

PutBranchOverfull(c, cap, k) ==
    IF Has(c, k) THEN "put44"
    ELSE IF Len(c) > cap THEN "put47" ELSE "put50"

\* lines 42 and 45: which statement put executes next
PutBranch(c, cap, k) ==
    IF Has(c, k) THEN "put44"
    ELSE IF Len(c) >= cap THEN "put47" ELSE "put50"

\* lines 42, 45: if key in self.cache / elif len(self.cache) >= self.capacity
Put42(t) ==
    /\ pc[t] = "put42"
    /\ pc' = [pc EXCEPT ![t] = PutBranch(cache, capacity, key[t])]
    /\ UNCHANGED <<capacity, cache, lock, op, key, val, value, ret, pre,
                   seqCache, seqRet, watch, mon, count, rest>>

PutRemoveOldest(c, k) == PopItemFirst(c)

\* line 44: the dictionary after self.cache.pop(key)
PutRemove(c, k) == Pop(c, k)

\* line 44: self.cache.pop(key)
Put44(t) ==
    /\ pc[t] = "put44"
    /\ IF Has(cache, key[t])
       THEN /\ cache' = PutRemove(cache, key[t])
            /\ pc' = [pc EXCEPT ![t] = "put50"]
            /\ lock' = lock
       ELSE /\ Raise(t)
            /\ cache' = cache
    /\ UNCHANGED <<capacity, op, key, val, value, ret, pre, seqCache, seqRet, watch, mon, count, rest>>

EvictNewest(c) == PopItemLast(c)

\* line 47: the dictionary after self.cache.popitem(last=False)
Evict(c) == PopItemFirst(c)

\* line 47: self.cache.popitem(last=False)
Put47(t) ==
    /\ pc[t] = "put47"
    /\ IF Len(cache) > 0
       THEN /\ cache' = Evict(cache)
            /\ pc' = [pc EXCEPT ![t] = "put50"]
            /\ lock' = lock
       ELSE /\ Raise(t)
            /\ cache' = cache
    /\ UNCHANGED <<capacity, op, key, val, value, ret, pre, seqCache, seqRet, watch, mon, count, rest>>

\* line 50: self.cache[key] = value
Put50(t) ==
    /\ pc[t] = "put50"
    /\ cache' = SetItem(cache, key[t], val[t])
    /\ ret' = [ret EXCEPT ![t] = RetNone]
    /\ pc' = [pc EXCEPT ![t] = "ret"]
    /\ UNCHANGED <<capacity, lock, op, key, val, value, pre, seqCache, seqRet, watch, mon, count, rest>>

\* ------------------------------------------- clear, get_size, is_full, peek
ClearKeepsNewest(c) == IF Len(c) = 0 THEN c ELSE <<c[Len(c)]>>

\* line 55: the dictionary after self.cache.clear()
Cleared(c) == <<>>

\* line 55: self.cache.clear()
Clear55(t) ==
    /\ pc[t] = "clear55"
    /\ cache' = Cleared(cache)
    /\ ret' = [ret EXCEPT ![t] = RetNone]
    /\ pc' = [pc EXCEPT ![t] = "ret"]
    /\ UNCHANGED <<capacity, lock, op, key, val, value, pre, seqCache, seqRet, watch, mon, count, rest>>

\* line 60: return len(self.cache)
Size60(t) ==
    /\ pc[t] = "size60"
    /\ ret' = [ret EXCEPT ![t] = RetInt(Len(cache))]
    /\ pc' = [pc EXCEPT ![t] = "ret"]
    /\ UNCHANGED <<capacity, cache, lock, op, key, val, value, pre, seqCache, seqRet, watch, mon, count, rest>>

\* line 65: return len(self.cache) >= self.capacity
Full65(t) ==
    /\ pc[t] = "full65"
    /\ ret' = [ret EXCEPT ![t] = RetBool(IsFull(cache, capacity))]
    /\ pc' = [pc EXCEPT ![t] = "ret"]
    /\ UNCHANGED <<capacity, cache, lock, op, key, val, value, pre, seqCache, seqRet, watch, mon, count, rest>>

PeekRefreshes(c, k) == GetState(c, k)

\* line 73: the dictionary after self.cache.get(key, -1), which only reads
PeekState(c, k) == c

\* line 73: return self.cache.get(key, -1)
Peek73(t) ==
    /\ pc[t] = "peek73"
    /\ cache' = PeekState(cache, key[t])
    /\ ret' = [ret EXCEPT ![t] = RetValue(GetDefault(cache, key[t], NotFound))]
    /\ pc' = [pc EXCEPT ![t] = "ret"]
    /\ UNCHANGED <<capacity, lock, op, key, val, value, pre, seqCache, seqRet, watch, mon, count, rest>>

\* ------------------------------------------------------------------ Next
Next ==
    \/ Construct
    \/ \E t \in Threads :
        \/ Call(t)
        \/ EnterGet(t)
        \/ EnterPut(t)
        \/ EnterPeek(t)
        \/ EnterClear(t)
        \/ EnterGetSize(t)
        \/ EnterIsFull(t)
        \/ Get26(t)
        \/ Get30(t)
        \/ Get31(t)
        \/ Put42(t)
        \/ Put44(t)
        \/ Put47(t)
        \/ Put50(t)
        \/ Clear55(t)
        \/ Size60(t)
        \/ Full65(t)
        \/ Peek73(t)
        \/ Return(t)

Init == Start("none")
InitScen == Start("scen")
InitRun == Start("run")

\* Thread t takes the lock for one of the methods.
Enter(t) ==
    \/ EnterGet(t)
    \/ EnterPut(t)
    \/ EnterPeek(t)
    \/ EnterClear(t)
    \/ EnterGetSize(t)
    \/ EnterIsFull(t)

\* Thread t executes a statement under the lock, or returns.
Step(t) ==
    \/ Get26(t)
    \/ Get30(t)
    \/ Get31(t)
    \/ Put42(t)
    \/ Put44(t)
    \/ Put47(t)
    \/ Put50(t)
    \/ Clear55(t)
    \/ Size60(t)
    \/ Full65(t)
    \/ Peek73(t)
    \/ Return(t)

Spec == Init /\ [][Next]_vars

\* ============================================== booking: the operations
\* The cache plays no part in the booking system.
lru == <<capacity, cache, lock, pc, op, key, val, value, ret, pre,
         seqCache, seqRet, watch, mon, count, built, capArg>>

\* What a call that is neither a booking nor a cancellation leaves behind.
OtherCall(o) == [NoCall EXCEPT !.op = o]

\* line 53: self.cinemas[cinema_id] = cinema; a known id keeps its place
CinemaPut(cin, c, hs) ==
    IF \E i \in 1..Len(cin) : cin[i][1] = c
    THEN [i \in 1..Len(cin) |-> IF cin[i][1] = c THEN <<c, hs>> ELSE cin[i]]
    ELSE Append(cin, <<c, hs>>)

\* lines 49-54: add_cinema; the model stops creating screens at MaxScreens
AddCinema(c, screen_count, rows, columns) ==
    /\ Len(screens) + screen_count <= MaxScreens
    /\ screens' = screens \o [i \in 1..screen_count |-> NewScreen(rows, columns)]
    /\ cinemas' = CinemaPut(cinemas, c,
                            [i \in 1..screen_count |-> Len(screens) + i])
    /\ last' = OtherCall("add_cinema")
    /\ UNCHANGED <<tickets, lru, lot>>

\* lines 56-62: add_show; an unknown cinema does nothing, a screen_index
\* past the last screen raises IndexError before anything is written.  The
\* model stops adding shows to a screen that has NumShows of them.
AddShow(show_id, c, screen_index) ==
    /\ IF \E i \in 1..Len(cinemas) :
              cinemas[i][1] = c /\ screen_index < Len(cinemas[i][2])
       THEN LET i == CHOOSE j \in 1..Len(cinemas) : cinemas[j][1] = c
                h == cinemas[i][2][screen_index + 1]
            IN  /\ Len(screens[h].shows) < NumShows
                /\ screens' = [screens EXCEPT ![h].shows = Append(@, show_id)]
       ELSE UNCHANGED screens
    /\ last' = OtherCall("add_show")
    /\ UNCHANGED <<cinemas, tickets, lru, lot>>

\* lines 64-76: book_ticket
BookTicket(t, show_id, n) ==
    LET h == BookedScreen(screens, cinemas, show_id, n)
    IN  /\ IF h # 0
           THEN /\ screens' = [screens EXCEPT ![h] = FindSeats(screens[h], n).screen]
                /\ tickets' = (t :> [show |-> show_id,
                                     screen |-> h,
                                     seats |-> FindSeats(screens[h], n).seats])
                              @@ tickets
           ELSE UNCHANGED <<screens, tickets>>
        /\ last' = [op |-> "book", ticket |-> t, show |-> show_id, n |-> n,
                    ok |-> h # 0,
                    before |-> GetFreeSeatsCount(screens, cinemas, show_id),
                    follows |-> FALSE]
        /\ UNCHANGED <<cinemas, lru, lot>>

\* lines 100-109: cancel_ticket.  last.follows tells that the call before
\* was the successful booking of this very ticket, whose show and count
\* before the booking are carried along.
CancelTicket(t) ==
    LET follows == last.op = "book" /\ last.ok /\ last.ticket = t
    IN  /\ IF t \in DOMAIN tickets
           THEN /\ screens' =
                       [screens EXCEPT ![tickets[t].screen] =
                           MarkSeats(@,
                                     [i \in 1..Len(tickets[t].seats) |->
                                         SeatPosition(tickets[t].seats[i])],
                                     FALSE)]
                /\ tickets' = [u \in DOMAIN tickets \ {t} |-> tickets[u]]
           ELSE UNCHANGED <<screens, tickets>>
        /\ last' = [op |-> "cancel", ticket |-> t,
                    show |-> IF follows THEN last.show ELSE 0,
                    n |-> 0,
                    ok |-> t \in DOMAIN tickets,
                    before |-> IF follows THEN last.before ELSE 0,
                    follows |-> follows]
        /\ UNCHANGED <<cinemas, lru, lot>>

NextBook ==
    \/ \E c \in CinemaIds, k \in 1..MaxScreens, r \in 1..MaxSide :
          AddCinema(c, k, r, MaxSide)
    \/ \E s \in ShowIds, c \in CinemaIds, i \in 0..(MaxScreens - 1) :
          AddShow(s, c, i)
    \/ \E t \in TicketIds, s \in ShowIds, n \in Counts : BookTicket(t, s, n)
    \/ \E t \in TicketIds : CancelTicket(t)

\* line 146: BookingSystem()
InitBook == StartWith("book", {1})

SpecBook == InitBook /\ [][NextBook]_vars

\* ========================================== parking lot: the operations
\* lines 62-80: ParkingLot(parking)
NewLot(grid) ==
    /\ parking = <<>>
    /\ parking' = grid
    /\ vehicle_map' = <<>>
    /\ spot_map' = <<>>
    /\ free_spots' = InitialFreeSpots(grid)
    /\ lotCall' = [NoLotCall EXCEPT !.op = "new"]
    /\ UNCHANGED <<lru, book>>

\* lines 95-125: park
Park(t, vehicle_number, ticket_id, strategy) ==
    LET spot_id == IF vehicle_number \in DOMAIN vehicle_map
                      \/ ticket_id \in DOMAIN vehicle_map
                   THEN <<>>
                   ELSE FindSpot(parking, spot_map, free_spots, t, strategy)
        vehicle == [vehicle_type |-> t, vehicle_number |-> vehicle_number,
                    ticket_id |-> ticket_id, spot_id |-> spot_id]
    IN  /\ parking # <<>>
        /\ IF spot_id # <<>>
           THEN /\ vehicle_map' = (ticket_id :> vehicle)
                                  @@ (vehicle_number :> vehicle) @@ vehicle_map
                /\ spot_map' = (spot_id :> vehicle) @@ spot_map
                /\ free_spots' = [free_spots EXCEPT ![SpotFloor(spot_id)][t] = @ - 1]
           ELSE UNCHANGED <<vehicle_map, spot_map, free_spots>>
        /\ lotCall' = [NoLotCall EXCEPT !.op = "park"]
        /\ UNCHANGED <<parking, lru, book>>

\* lines 127-143: remove_vehicle.  Each del raises KeyError when its key is
\* not in vehicle_map; what was deleted before stays deleted.
RemoveVehicle(spot_id) ==
    /\ parking # <<>>
    /\ IF spot_id \notin DOMAIN spot_map
       THEN /\ lotCall' = [op |-> "remove", spot |-> spot_id, ret |-> "False"]
            /\ UNCHANGED <<vehicle_map, spot_map, free_spots>>
       ELSE LET vehicle == spot_map[spot_id]
                first == Del(vehicle_map, vehicle.vehicle_number)
                outcome == IF vehicle.vehicle_number \notin DOMAIN vehicle_map
                              \/ vehicle.ticket_id \notin DOMAIN first
                           THEN "KeyError"
                           ELSE "True"
            IN  /\ lotCall' = [op |-> "remove", spot |-> spot_id, ret |-> outcome]
                /\ IF vehicle.vehicle_number \notin DOMAIN vehicle_map
                   THEN UNCHANGED <<vehicle_map, spot_map, free_spots>>
                   ELSE IF vehicle.ticket_id \notin DOMAIN first
                   THEN /\ vehicle_map' = first
                        /\ UNCHANGED <<spot_map, free_spots>>
                   ELSE /\ vehicle_map' = Del(first, vehicle.ticket_id)
                        /\ spot_map' = Del(spot_map, spot_id)
                        /\ free_spots' =
                               [free_spots EXCEPT
                                   ![SpotFloor(spot_id)][vehicle.vehicle_type] = @ + 1]
    /\ UNCHANGED <<parking, lru, book>>

NextLot ==
    \/ \E grid \in Grids : NewLot(grid)
    \/ \E t \in VehicleTypes, number \in Names, ticket \in Names, s \in Strategies :
          Park(t, number, ticket, s)
    \/ \E id \in SpotIds : RemoveVehicle(id)

\* Before ParkingLot(parking) runs there is no lot.
InitLot == StartWith("lot", {1})

SpecLot == InitLot /\ [][NextLot]_vars

\* ------------------------------------------------ test_concurrent_access
\* lines 80 and 85: range(5)
WorkerRange == 5

\* line 77: LRUCache(2)
WorkerCapacity == 2

\* Thread 1 is worker1 and thread 2 is worker2; key{i} and value{i} are
\* modelled by the number i.
\* lines 80-81, 85-86: the next round of the loop calls the cache
WorkerCall(t) ==
    /\ count[t] < WorkerRange
    /\ Call(t)

\* line 81: cache.put(f'key{i}', f'value{i}') takes the lock
WorkerPut == Acquire(1, "put", count[1], count[1]) /\ UNCHANGED count

\* line 86: cache.get(f'key{i}') takes the lock
WorkerGet == Acquire(2, "get", count[2], 0) /\ UNCHANGED count

\* lines 80-82, 85-87: the call returns and the loop goes to the next i
WorkerReturn(t) ==
    /\ Exit(t)
    /\ count' = [count EXCEPT ![t] = count[t] + 1]

\* lines 97-98: both threads have ended
AllDone ==
    /\ count[1] = WorkerRange
    /\ count[2] = WorkerRange
    /\ pc[1] = "idle"
    /\ pc[2] = "idle"

\* worker1 never puts a key twice, so line 44 of put is never reached and
\* is not among the steps.
NextWorkers ==
    \/ Construct
    \/ WorkerCall(1)
    \/ WorkerCall(2)
    \/ WorkerPut
    \/ WorkerGet
    \/ Put42(1)
    \/ Put47(1)
    \/ Put50(1)
    \/ Get26(2)
    \/ Get30(2)
    \/ Get31(2)
    \/ WorkerReturn(1)
    \/ WorkerReturn(2)

InitWorkers == StartWith("workers", {WorkerCapacity})

\* The two threads keep running until their loops end.
SpecWorkers == InitWorkers /\ [][NextWorkers]_vars /\ WF_vars(NextWorkers)

\* A running thread keeps executing, and a thread that waits for the lock
\* gets it if the lock is free again and again (fair lock acquisition).
FairSpec ==
    /\ Init
    /\ [][Next]_vars
    /\ \A t \in Threads : WF_vars(Step(t)) /\ SF_vars(Enter(t))
SpecScen == InitScen /\ [][Next]_vars
SpecRun == InitRun /\ [][Next]_vars

\* ================================================================ claims
\* A thread is inside a method body: between taking the lock and giving it
\* back.
InBody(t) == pc[t] \notin {"idle", "lock", "raised"}

\* No thread is part way through a method body.
Quiet == \A t \in Threads : pc[t] \in {"idle", "lock", "ret"}

\* Thread t has executed the whole body of method o and is about to return.
Finished(t, o) == pc[t] = "ret" /\ op[t] = o

\* C1: in every reachable state, also part way through a call and with
\* several threads calling, the cache holds between 0 and capacity entries.
CapacityInvariant == Len(cache) >= 0 /\ Len(cache) <= capacity

\* A put that had to evict has finished while another thread waits.
CapacityWitness ==
    \E t, u \in Threads :
        /\ t # u
        /\ pc[u] = "lock"
        /\ Finished(t, "put")
        /\ ~Has(pre[t], key[t])
        /\ Len(pre[t]) = capacity
        /\ Len(cache) = capacity

\* C2: every call returns what it returns in the serial execution of the
\* calls in the order they took the lock, no call ends with an exception,
\* and between calls the cache (entries, values, order) is that serial
\* execution's cache.
Serializable ==
    /\ \A t \in Threads : pc[t] # "raised"
    /\ \A t \in Threads :
          pc[t] = "ret" => ret[t] = seqRet[t] /\ cache = seqCache
    /\ ~lock => cache = seqCache

\* A get hits on a full cache while another thread waits for the lock.
SerializableWitness ==
    \E t, u \in Threads :
        /\ t # u
        /\ pc[u] = "lock"
        /\ Finished(t, "get")
        /\ Has(pre[t], key[t])
        /\ Len(cache) = capacity
        /\ cache # pre[t]

\* C3: a put of an absent key into a full cache removes exactly the entry at
\* the least-recently-used end, appends the new entry at the other end,
\* keeps every other entry with its value and order, and leaves the cache
\* full.
EvictionOnFull ==
    \A t \in Threads :
        (Finished(t, "put") /\ ~Has(pre[t], key[t]) /\ Len(pre[t]) = capacity)
        => /\ Len(cache) = capacity
           /\ cache[capacity] = <<key[t], val[t]>>
           /\ \A i \in 1..(capacity - 1) : cache[i] = pre[t][i + 1]
           /\ KeysOf(pre[t]) \ KeysOf(cache) = {pre[t][1][1]}

EvictionOnFullWitness ==
    \E t \in Threads :
        /\ Finished(t, "put")
        /\ ~Has(pre[t], key[t])
        /\ Len(pre[t]) = capacity
        /\ capacity > 1

\* C4: once the puts made since the last get, peek or clear were on more
\* than capacity distinct keys, the stored keys are exactly the capacity
\* keys put most recently.
EvictionCorrectness ==
    (Quiet /\ Len(mon.run) > capacity)
    => KeysOf(cache) = {mon.run[i] : i \in (Len(mon.run) - capacity + 1)..Len(mon.run)}

EvictionCorrectnessWitness ==
    /\ Quiet
    /\ Len(mon.run) > capacity
    /\ capacity > 1
    /\ cache[1][1] > cache[2][1]

\* C5: a get of a present key returns the stored value and moves the key to
\* the most-recently-used end, leaving the rest as it was; so on a cache of
\* capacity 2, put(k1); put(k2); get(k1); put(k3) evicts k2: afterwards a
\* get of k2 finds nothing and a get of k1 or k3 returns its value.
RecencyRefresh ==
    /\ \A t \in Threads :
          (Finished(t, "get") /\ Has(pre[t], key[t]))
          => /\ ret[t] = RetValue(Lookup(pre[t], key[t]))
             /\ Len(cache) = Len(pre[t])
             /\ cache[Len(cache)] = <<key[t], Lookup(pre[t], key[t])>>
             /\ Pop(cache, key[t]) = Pop(pre[t], key[t])
    /\ (Quiet /\ capacity = 2 /\ mon.scen.stage = 4 /\ mon.scen.mid = "get")
       => /\ ~Has(cache, mon.scen.k2)
          /\ GetResult(cache, mon.scen.k2) = NotFound
          /\ Has(cache, mon.scen.k1)
          /\ GetResult(cache, mon.scen.k1) = mon.scen.v1
          /\ GetResult(cache, mon.scen.k3) = mon.scen.v3
          /\ \A t \in Threads :
                Finished(t, "put")
                => KeysOf(pre[t]) \ KeysOf(cache) = {mon.scen.k2}

RecencyRefreshWitness ==
    \E t \in Threads :
        /\ Finished(t, "put")
        /\ capacity = 2
        /\ mon.scen.stage = 4
        /\ mon.scen.mid = "get"
        /\ mon.scen.v1 # NotFound

\* C6: peek returns what a lookup of the key gives (the stored value, or
\* NotFound) and leaves entries, order and occupancy as they were; so on a
\* cache of capacity 2, put(k1); put(k2); peek(k1); put(k3) evicts k1.
PeekNonInterference ==
    /\ \A t \in Threads :
          Finished(t, "peek")
          => /\ cache = pre[t]
             /\ ret[t] = RetValue(IF Has(pre[t], key[t])
                                  THEN Lookup(pre[t], key[t]) ELSE NotFound)
    /\ (Quiet /\ capacity = 2 /\ mon.scen.stage = 4 /\ mon.scen.mid = "peek")
       => /\ ~Has(cache, mon.scen.k1)
          /\ Has(cache, mon.scen.k2)
          /\ Has(cache, mon.scen.k3)
          /\ \A t \in Threads :
                Finished(t, "put")
                => KeysOf(pre[t]) \ KeysOf(cache) = {mon.scen.k1}

PeekNonInterferenceWitness ==
    \E t \in Threads :
        /\ Finished(t, "put")
        /\ capacity = 2
        /\ mon.scen.stage = 4
        /\ mon.scen.mid = "peek"

\* C7: a get of a key that is absent goes straight to its return, returns
\* NotFound, raises nothing and leaves the cache exactly as it was.
MissLeavesState ==
    \A t \in Threads :
        (op[t] = "get" /\ pc[t] \notin {"idle", "lock"} /\ ~Has(pre[t], key[t]))
        => /\ pc[t] \in {"get26", "ret"}
           /\ cache = pre[t]
           /\ pc[t] = "ret" => ret[t] = RetValue(NotFound)

MissLeavesStateWitness ==
    \E t \in Threads :
        /\ Finished(t, "get")
        /\ ~Has(pre[t], key[t])
        /\ Len(cache) = capacity

\* C8: a put of a present key replaces its value, moves it to the
\* most-recently-used end, keeps the occupancy and every other entry (no
\* eviction, full or not), and a get of the key then returns the new value.
UpdateInPlace ==
    \A t \in Threads :
        (Finished(t, "put") /\ Has(pre[t], key[t]))
        => /\ Len(cache) = Len(pre[t])
           /\ KeysOf(cache) = KeysOf(pre[t])
           /\ cache[Len(cache)] = <<key[t], val[t]>>
           /\ Pop(cache, key[t]) = Pop(pre[t], key[t])
           /\ GetResult(cache, key[t]) = val[t]

\* The key was the oldest of a full cache and held another value.
UpdateInPlaceWitness ==
    \E t \in Threads :
        /\ Finished(t, "put")
        /\ Len(pre[t]) = capacity
        /\ capacity > 1
        /\ pre[t][1][1] = key[t]
        /\ pre[t][1][2] # val[t]

\* C9: after clear the cache is empty, a get of any key finds nothing, and
\* the capacity is what it was: the next puts keep every key until more than
\* capacity distinct keys have been put.
ClearResets ==
    /\ \A t \in Threads :
          Finished(t, "clear")
          => /\ Len(cache) = 0
             /\ \A k \in Keys : GetResult(cache, k) = NotFound
    /\ (Quiet /\ mon.fresh /\ Len(mon.run) <= capacity)
       => /\ Len(cache) = Len(mon.run)
          /\ \A i \in 1..Len(cache) : cache[i][1] = mon.run[i]

\* clear has emptied a full cache of capacity above 1.
ClearResetsWitness ==
    \E t \in Threads :
        /\ Finished(t, "clear")
        /\ Len(pre[t]) = capacity
        /\ capacity > 1

\* C10: at most one thread is inside a method body at any moment, and a
\* thread inside a body holds the lock.
MutualExclusion ==
    /\ Cardinality({t \in Threads : InBody(t)}) <= 1
    /\ \A t \in Threads : InBody(t) => lock

MutualExclusionWitness ==
    \E t, u \in Threads :
        /\ t # u
        /\ pc[t] = "peek73"
        /\ pc[u] = "lock"

\* C11: every return gives the lock back, so the lock is held only while
\* some thread is inside a method body, and with fair lock acquisition every
\* thread that waits for the lock gets to run its method and return.
LockProgress ==
    /\ [](lock => \E t \in Threads : InBody(t))
    /\ [](\A t \in Threads : pc[t] # "raised")
    /\ \A t \in Threads : (pc[t] = "lock") ~> (pc[t] = "idle")

\* A get that missed has returned and the lock is free while another thread
\* waits for it.
LockProgressWitness ==
    \E t, u \in Threads :
        /\ t # u
        /\ pc[u] = "lock"
        /\ pc[t] = "idle"
        /\ ~lock
        /\ Len(cache) = capacity
        /\ built = "yes"

\* C12: LRUCache(c) with c <= 0 raises ValueError and makes no cache (no
\* field is set, nothing can be called); with c >= 1 it makes an empty,
\* unlocked cache of capacity c.
ConstructionContract ==
    /\ [](built = "ValueError"
          => /\ capArg <= 0
             /\ capacity = 0
             /\ cache = <<>>
             /\ \A t \in Threads : pc[t] = "idle")
    /\ [](built = "yes" => capArg >= 1 /\ capacity = capArg)
    /\ [][(built = "no" /\ built' = "yes") => (cache' = <<>> /\ ~lock')]_vars
    /\ [][built = "ValueError" => UNCHANGED vars]_vars

ConstructionWitness == built = "ValueError" /\ capArg = 0

\* C13: put never raises; when it is done the key is stored with the value
\* put, at the most-recently-used end; a put of an absent key into a cache
\* that is not full appends the entry and removes nothing.
PutNeverFails ==
    \A t \in Threads :
        /\ op[t] = "put" => pc[t] # "raised"
        /\ Finished(t, "put")
           => /\ Has(cache, key[t])
              /\ Lookup(cache, key[t]) = val[t]
              /\ cache[Len(cache)] = <<key[t], val[t]>>
        /\ (Finished(t, "put") /\ ~Has(pre[t], key[t]) /\ Len(pre[t]) < capacity)
           => /\ Len(cache) = Len(pre[t]) + 1
              /\ \A i \in 1..Len(pre[t]) : cache[i] = pre[t][i]

\* A put into the empty cache of capacity 1.
PutNeverFailsWitness ==
    \E t \in Threads :
        /\ Finished(t, "put")
        /\ Len(pre[t]) = 0
        /\ capacity = 1

\* C14: get_size returns the number of entries, between 0 and capacity;
\* is_full returns true exactly when that number equals capacity; neither
\* changes the cache.
SizeAndFull ==
    \A t \in Threads :
        /\ Finished(t, "get_size")
           => /\ ret[t] = RetInt(Len(pre[t]))
              /\ Len(pre[t]) >= 0
              /\ Len(pre[t]) <= capacity
              /\ cache = pre[t]
        /\ Finished(t, "is_full")
           => /\ ret[t] = RetBool(Len(pre[t]) = capacity)
              /\ cache = pre[t]

SizeAndFullWitness ==
    \E t \in Threads :
        /\ Finished(t, "is_full")
        /\ ret[t] = RetBool(TRUE)
        /\ capacity > 1

\* C15: in every state each stored key occurs exactly once in the recency
\* order, and a non-empty cache has exactly one entry at the
\* least-recently-used end: the first one, which is the one an eviction
\* removes.
OrderWellFormed ==
    /\ \A i, j \in 1..Len(cache) : cache[i][1] = cache[j][1] => i = j
    /\ Len(cache) > 0
       => /\ KeysOf(cache) \ KeysOf(Evict(cache)) = {cache[1][1]}
          /\ Len(Evict(cache)) = Len(cache) - 1

\* Part way through a get on a full cache of capacity above 1.
OrderWellFormedWitness ==
    \E t \in Threads :
        /\ pc[t] = "get31"
        /\ Len(pre[t]) = capacity
        /\ Len(cache) > 0

\* C16: a key stored with the value -1 gives the result of a missing key,
\* from get (which still moves the key to the most-recently-used end) and
\* from peek (which still changes nothing).
SentinelConflation ==
    \A t \in Threads :
        /\ (Finished(t, "get") /\ Has(pre[t], key[t])
                               /\ Lookup(pre[t], key[t]) = NotFound)
           => /\ ret[t] = GetMiss
              /\ Len(cache) = Len(pre[t])
              /\ cache[Len(cache)] = <<key[t], NotFound>>
        /\ (Finished(t, "peek") /\ Has(pre[t], key[t])
                                /\ Lookup(pre[t], key[t]) = NotFound)
           => /\ ret[t] = RetValue(PeekResult(<<>>, key[t]))
              /\ ret[t] = GetMiss
              /\ cache = pre[t]

\* get returns -1 for a key that is stored, and moves it from the
\* least-recently-used end.
SentinelConflationWitness ==
    \E t \in Threads :
        /\ Finished(t, "get")
        /\ ret[t] = RetValue(NotFound)
        /\ Len(pre[t]) > 1
        /\ pre[t][1] = <<key[t], NotFound>>

\* Thread u has removed an entry and not yet inserted the one that follows.
Partial(u) == pc[u] \in {"get31", "put50"} /\ cache # pre[u]

\* C17: while a get or a put is between its removal and its insertion no
\* other thread is inside a method, and what get, peek and get_size return
\* is what they return when the calls run one at a time: a stored key is
\* not reported missing and no size is read in the middle of a put.
NoPartialObservation ==
    /\ \A t, u \in Threads : (t # u /\ Partial(u)) => ~InBody(t)
    /\ \A t \in Threads :
          pc[t] \in {"get26", "put42", "size60", "full65", "peek73"}
          => cache = pre[t]
    /\ \A t \in Threads :
          (pc[t] = "ret" /\ op[t] \in {"get", "peek", "get_size"})
          => ret[t] = seqRet[t]

\* An evicting put is between popitem and the insertion while another
\* thread waits for the lock.
NoPartialObservationWitness ==
    \E t, u \in Threads :
        /\ t # u
        /\ pc[u] = "lock"
        /\ pc[t] = "put50"
        /\ Len(pre[t]) = capacity
        /\ Len(cache) = capacity - 1

\* C19: a call other than clear never leaves fewer entries than it found,
\* so a full cache stays full until clear is called.
OccupancyMonotone ==
    \A t \in Threads :
        (pc[t] = "ret" /\ op[t] # "clear")
        => /\ Len(cache) >= Len(pre[t])
           /\ IsFull(pre[t], capacity) => IsFull(cache, capacity)

\* A get has hit on a full cache.
OccupancyMonotoneWitness ==
    \E t \in Threads :
        /\ Finished(t, "get")
        /\ Has(pre[t], key[t])
        /\ Len(pre[t]) = capacity
        /\ capacity > 1

\* C18: with worker1 putting key0..key4 and worker2 getting key0..key4 on a
\* cache of capacity 2, whatever the interleaving, both threads end, the
\* cache then holds exactly 2 entries, key4 among them, and no get changes
\* the number of entries or the set of stored keys.
WorkersOutcome ==
    /\ <>AllDone
    /\ [](AllDone \/ ENABLED NextWorkers)
    /\ [](AllDone => Len(cache) = WorkerCapacity /\ Has(cache, WorkerRange - 1))
    /\ [](\A t \in Threads : pc[t] # "raised")
    /\ [](\A t \in Threads :
            Finished(t, "get")
            => Len(cache) = Len(pre[t]) /\ KeysOf(cache) = KeysOf(pre[t]))

\* Both threads have ended and key2 is still stored: a get protected it.
WorkersOutcomeWitness ==
    /\ AllDone
    /\ cache[1][1] = 2

\* C20: right after a successful book_ticket(t, show, n),
\* get_free_seats_count(show) is n lower than right before it; and right
\* after a cancel_ticket(t) that follows that booking, the cancellation has
\* returned True and get_free_seats_count(show) is again what it was before
\* the booking.
BookingRoundTrip ==
    /\ (last.op = "book" /\ last.ok)
       => GetFreeSeatsCount(screens, cinemas, last.show) = last.before - last.n
    /\ (last.op = "cancel" /\ last.follows)
       => /\ last.ok
          /\ GetFreeSeatsCount(screens, cinemas, last.show) = last.before

\* A booking made while 3 seats of the show's screen were free has been
\* cancelled, and 3 seats are free again.
BookingRoundTripWitness ==
    /\ last.op = "cancel"
    /\ last.follows
    /\ last.ok
    /\ last.before = 3
    /\ GetFreeSeatsCount(screens, cinemas, last.show) = 3

\* C21: a book_ticket(t, show, n) called while get_free_seats_count(show)
\* is below n returns [] and leaves every seat and every recorded ticket as
\* it was; a cancel_ticket(t) of an id that is not recorded returns False
\* and leaves every seat and every recorded ticket as it was.
FailedCallsChangeNothing ==
    [][/\ (/\ last'.op = "book"
           /\ GetFreeSeatsCount(screens, cinemas, last'.show) < last'.n)
          => (~last'.ok /\ screens' = screens /\ tickets' = tickets)
       /\ (last'.op = "cancel" /\ last'.ticket \notin DOMAIN tickets)
          => (~last'.ok /\ screens' = screens /\ tickets' = tickets)]_vars

\* A booking has failed on a screen that still had a free seat, but fewer
\* than asked for.
FailedCallsWitness ==
    /\ last.op = "book"
    /\ ~last.ok
    /\ last.before > 0
    /\ last.before < last.n
    /\ GetFreeSeatsCount(screens, cinemas, last.show) = last.before

\* The names of the seats of a recorded ticket.
SeatsOfTicket(t) == {tickets[t].seats[i] : i \in 1..Len(tickets[t].seats)}

\* C22: in every state, a seat of a screen is marked booked if and only if
\* exactly one recorded ticket of that screen lists it.
SeatTicketConsistency ==
    \A h \in 1..Len(screens) :
        \A r \in 0..(screens[h].rows - 1), c \in 0..(screens[h].columns - 1) :
            screens[h].seats[r][c]
            <=> Cardinality({t \in DOMAIN tickets :
                                /\ tickets[t].screen = h
                                /\ SeatName(r, c) \in SeatsOfTicket(t)}) = 1

\* Two tickets are recorded side by side and their seats are the booked ones.
SeatTicketWitness ==
    /\ Cardinality(DOMAIN tickets) = 2
    /\ SeatTicketConsistency

\* The cells of type t on floor f whose spot holds no vehicle.
EmptyCells(f, t) ==
    {p \in (0..(NumRows - 1)) \X (0..(NumCols - 1)) :
        parking[f][p[1]][p[2]] = t /\ SpotId(f, p[1], p[2]) \notin DOMAIN spot_map}

\* C23: in every state of a built lot, for every floor f and type t in
\* {2, 4}, get_free_spots_count(f, t) is the number of cells of type t on
\* floor f whose spot holds no vehicle, and no two vehicles are on one spot.
FreeSpotCounter ==
    parking # <<>>
    => /\ \A f \in Floors, t \in VehicleTypes :
             GetFreeSpotsCount(free_spots, f, t) = Cardinality(EmptyCells(f, t))
       /\ \A j, k \in DOMAIN vehicle_map :
             vehicle_map[j].spot_id = vehicle_map[k].spot_id
             => vehicle_map[j] = vehicle_map[k]

\* A vehicle has been removed while another one is still parked.
FreeSpotCounterWitness ==
    /\ lotCall.op = "remove"
    /\ lotCall.ret = "True"
    /\ DOMAIN spot_map # {}

\* C24: a remove_vehicle(spot_id) on a spot that holds a vehicle returns
\* True, and right after it the spot is in no one's use and search_vehicle
\* by the vehicle's number and by its ticket id both return ""; on a spot
\* that holds no vehicle it returns False and nothing has changed.
RemoveVehicleContract ==
    [][lotCall'.op = "remove"
       => IF lotCall'.spot \in DOMAIN spot_map
          THEN /\ lotCall'.ret = "True"
               /\ lotCall'.spot \notin DOMAIN spot_map'
               /\ SearchVehicle(vehicle_map',
                                spot_map[lotCall'.spot].vehicle_number) = <<>>
               /\ SearchVehicle(vehicle_map',
                                spot_map[lotCall'.spot].ticket_id) = <<>>
          ELSE /\ lotCall'.ret = "False"
               /\ UNCHANGED <<parking, vehicle_map, spot_map, free_spots>>]_vars

\* A vehicle has been removed and its spot is free again.
RemoveVehicleWitness ==
    /\ lotCall.op = "remove"
    /\ lotCall.ret = "True"
    /\ lotCall.spot \notin DOMAIN spot_map
    /\ vehicle_map = <<>>

====
